---------------------------- MODULE Spec2Model ----------------------------
(***************************************************************************)
(* Model of apps/web/src/app/(app)/repos/[owner]/[repo]/pulls/pr-actions.ts *)
(*                                                                         *)
(* One server action at a time is in flight.  Every `await` of the source  *)
(* is one step of the model; what the external collaborators (getOctokit,  *)
(* getGitHubToken, the Octokit REST calls, fetch, invalidatePullRequest-   *)
(* Cache, revalidatePath) answer is drawn nondeterministically at the step *)
(* that awaits them: a value, null, or a thrown error.                     *)
(***************************************************************************)
EXTENDS Integers, Sequences, FiniteSets, TLC

\* ------------------------------------------------------------------ bounds
MaxPull == 2
MaxFiles == 2
MaxMerges == 1
MaxClock == 2
MaxCount == 1
MaxOrgs == 11

\* --------------------------------------------------------- input domains
Owners == {"acme", "Acme"}
Repos == {"hub"}
PullNumbers == 1..MaxPull
\* messages a thrown error may carry; "" is an error without a message
ErrorMessages == {"", "boom"}

VARIABLES
    fn,        \* the exported function in flight, "none" when idle
    pc,        \* the position inside it
    args,      \* its arguments
    local,     \* its local constants (const ... = await ...)
    log,       \* the external calls it has made so far, in order
    result,    \* what it returned to its caller
    refs,      \* remote state: branch name -> tip sha
    clock,     \* the process-wide current time
    previous,  \* the preceding dossier fetch of the same author, if any
    auth       \* what getOctokit / getGitHubToken answered in this call

vars == <<fn, pc, args, local, log, result, refs, clock, previous, auth>>

NoResult == [kind |-> "none"]
NoArgs == [owner |-> "", repo |-> "", pullNumber |-> 0]
NoLocal == [none |-> TRUE]

\* ------------------------------------------------------------ log events
\* a remote API call; applied says whether the remote side did what was asked
RemoteEvWith(name, applied, payload) ==
    [ev |-> "remote", name |-> name, applied |-> applied, payload |-> payload]
RemoteEv(name, applied) == RemoteEvWith(name, applied, <<>>)
InvalidateEv(owner, repo, pullNumber) ==
    [ev |-> "invalidate", owner |-> owner, repo |-> repo, pullNumber |-> pullNumber]
RevalidateEv(path) ==
    [ev |-> "revalidate", path |-> path]

\* ------------------------------------------------------------- results
Success == [kind |-> "success"]
ErrorResult(msg) == [kind |-> "error", error |-> msg]
Fault(msg) == [kind |-> "fault", error |-> msg]

\* getErrorMessage(e) || fallback
ErrorOr(e, fallback) == IF e # "" THEN e ELSE fallback

\* ------------------------------------------------- PR_ACTION_SCOPES table
\* the table with the list scope of conflictResolution left out
PR_ACTION_SCOPES_NoList ==
    [merge |-> <<"detail", "list", "layout">>,
     close |-> <<"detail", "list", "layout">>,
     reopen |-> <<"detail", "list", "layout">>,
     rename |-> <<"detail", "list">>,
     updateBase |-> <<"detail", "list">>,
     review |-> <<"detail">>,
     comment |-> <<"detail">>,
     reviewComment |-> <<"detail">>,
     suggestion |-> <<"detail">>,
     fileCommit |-> <<"detail">>,
     resolveThread |-> <<"detail">>,
     unresolveThread |-> <<"detail">>,
     conflictResolution |-> <<"detail">>]

PR_ACTION_SCOPES ==
    [merge |-> <<"detail", "list", "layout">>,
     close |-> <<"detail", "list", "layout">>,
     reopen |-> <<"detail", "list", "layout">>,
     rename |-> <<"detail", "list">>,
     updateBase |-> <<"detail", "list">>,
     review |-> <<"detail">>,
     comment |-> <<"detail">>,
     reviewComment |-> <<"detail">>,
     suggestion |-> <<"detail">>,
     fileCommit |-> <<"detail">>,
     resolveThread |-> <<"detail">>,
     unresolveThread |-> <<"detail">>,
     conflictResolution |-> <<"detail", "list">>]

includes(seq, x) == \E i \in 1..Len(seq) : seq[i] = x

\* the three template strings of revalidateAfterPRMutation
DetailPath(owner, repo, pullNumber) ==
    [path |-> <<"repos", owner, repo, "pulls", ToString(pullNumber)>>, type |-> "page"]
ListPath(owner, repo) ==
    [path |-> <<"repos", owner, repo, "pulls">>, type |-> "page"]
LayoutPath(owner, repo) ==
    [path |-> <<"repos", owner, repo>>, type |-> "layout"]

\* the revalidatePath calls revalidateAfterPRMutation makes, in order
RevalidatedPaths(owner, repo, pullNumber, action) ==
    LET scopes == IF action \in DOMAIN PR_ACTION_SCOPES
                  THEN PR_ACTION_SCOPES[action] ELSE <<"detail">>
    IN  (IF includes(scopes, "detail")
            THEN <<DetailPath(owner, repo, pullNumber)>> ELSE <<>>)
        \o (IF includes(scopes, "list") THEN <<ListPath(owner, repo)>> ELSE <<>>)
        \o (IF includes(scopes, "layout") THEN <<LayoutPath(owner, repo)>> ELSE <<>>)

\* ------------------------------------------------------------------ Init
TipSha(branch) == <<"commit", branch>>
InitRefs == [feature |-> TipSha("feature"), main |-> TipSha("main")]
NoPrevious == [kind |-> "none"]

Init ==
    /\ fn = "none"
    /\ pc = "idle"
    /\ args = NoArgs
    /\ local = NoLocal
    /\ log = <<>>
    /\ result = NoResult
    /\ refs = InitRefs
    /\ clock = 0
    /\ previous = NoPrevious
    /\ auth = "unknown"

\* ------------------------------------------------------- shared steps
\* the caller invokes exported function f with the PR coordinates
Coords == [owner : Owners, repo : Repos, pullNumber : PullNumbers]

\* the caller invokes exported function f with arguments drawn from Args
Call(f, first, Args) ==
    /\ pc = "idle"
    /\ \E a \in Args : args' = a
    /\ fn' = f
    /\ pc' = first
    /\ UNCHANGED <<local, log, result, refs, clock, previous, auth>>

\* the function returns v to its caller
Return(v) ==
    /\ result' = v
    /\ pc' = "done"

\* getOctokit's answer used without the null check
GetOctokitUnchecked(f, next) ==
    /\ fn = f
    /\ pc = "auth"
    /\ \/ /\ auth' \in {"client", "null"}
          /\ pc' = next
          /\ UNCHANGED result
       \/ /\ auth' = "throws"
          /\ \E e \in ErrorMessages : Return(Fault(e))
    /\ UNCHANGED <<fn, args, local, log, refs, clock, previous>>

\* const octokit = await getOctokit(); if (!octokit) return {error: ...}
\* The await stands before the try block: a rejection reaches the caller.
GetOctokit(f, next) ==
    /\ fn = f
    /\ pc = "auth"
    /\ \/ /\ auth' = "client"
          /\ pc' = next
          /\ UNCHANGED result
       \/ /\ auth' = "null"
          /\ Return(ErrorResult("Not authenticated"))
       \/ /\ auth' = "throws"
          /\ \E e \in ErrorMessages : Return(Fault(e))
    /\ UNCHANGED <<fn, args, local, log, refs, clock, previous>>

\* one awaited Octokit call inside the try block that is the action's
\* mutation: on success go on to `next`, on a throw return {error}
RemoteMutation(f, at, api, next, fallback) ==
    /\ fn = f
    /\ pc = at
    /\ \/ /\ log' = Append(log, RemoteEv(api, TRUE))
          /\ pc' = next
          /\ UNCHANGED result
       \/ \E e \in ErrorMessages :
             /\ log' = Append(log, RemoteEv(api, FALSE))
             /\ Return(ErrorResult(ErrorOr(e, fallback)))
    /\ UNCHANGED <<fn, args, local, refs, clock, previous, auth>>

\* await invalidatePullRequestCache(owner, repo, pullNumber)
InvalidateCache(f, fallback) ==
    /\ fn = f
    /\ pc = "invalidate"
    /\ \/ /\ log' = Append(log, InvalidateEv(args.owner, args.repo, args.pullNumber))
          /\ pc' = "revalidate"
          /\ UNCHANGED result
       \/ \E e \in ErrorMessages :
             /\ Return(ErrorResult(ErrorOr(e, fallback)))
             /\ UNCHANGED log
    /\ UNCHANGED <<fn, args, local, refs, clock, previous, auth>>

\* the revalidatePath calls, then the return of `ok`; revalidatePath is
\* synchronous, a throw of the k+1-th call leaves the first k done
RevalidateAndReturn(f, action, ok, fallback) ==
    /\ fn = f
    /\ pc = "revalidate"
    /\ LET paths == RevalidatedPaths(args.owner, args.repo, args.pullNumber, action)
           evs == [i \in 1..Len(paths) |-> RevalidateEv(paths[i])]
       IN  \/ /\ log' = log \o evs
              /\ Return(ok)
           \/ \E k \in 0..(Len(paths) - 1), e \in ErrorMessages :
                 /\ log' = log \o SubSeq(evs, 1, k)
                 /\ Return(ErrorResult(ErrorOr(e, fallback)))
    /\ UNCHANGED <<fn, args, local, refs, clock, previous, auth>>

\* revalidateAfterPRMutation(owner, repo, pullNumber, action), then return ok
revalidateAfterPRMutation(f, action, ok, fallback) ==
    \/ InvalidateCache(f, fallback)
    \/ RevalidateAndReturn(f, action, ok, fallback)

\* the caller has the result; the next call may start
Finish ==
    /\ pc = "done"
    /\ fn' = "none"
    /\ pc' = "idle"
    /\ args' = NoArgs
    /\ local' = NoLocal
    /\ log' = <<>>
    /\ result' = NoResult
    /\ previous' = NoPrevious
    /\ auth' = "unknown"
    /\ UNCHANGED <<refs, clock>>

\* ------------------------------------------- the one-call PR mutations
OneCallAction(f, api, action, fallback) ==
    \/ Call(f, "auth", Coords)
    \/ GetOctokit(f, "remote")
    \/ RemoteMutation(f, "remote", api, "invalidate", fallback)
    \/ revalidateAfterPRMutation(f, action, Success, fallback)

updatePRBaseBranch ==
    OneCallAction("updatePRBaseBranch", "pulls.update", "updateBase",
                  "Failed to update base branch")
renamePullRequest ==
    OneCallAction("renamePullRequest", "pulls.update", "rename", "Failed to rename")
mergePullRequest ==
    OneCallAction("mergePullRequest", "pulls.merge", "merge", "Failed to merge")
closePullRequest ==
    OneCallAction("closePullRequest", "pulls.update", "close", "Failed to close")
reopenPullRequest ==
    OneCallAction("reopenPullRequest", "pulls.update", "reopen", "Failed to reopen")
submitPRReview ==
    OneCallAction("submitPRReview", "pulls.createReview", "review",
                  "Failed to submit review")
addPRComment ==
    OneCallAction("addPRComment", "issues.createComment", "comment",
                  "Failed to add comment")
addPRReviewComment ==
    OneCallAction("addPRReviewComment", "pulls.createReviewComment", "reviewComment",
                  "Failed to add review comment")

\* commitFileEditOnPR: the one call's answer carries the new blob sha,
\* data.content?.sha, which may be absent
commitFileEditOnPR ==
    \/ Call("commitFileEditOnPR", "auth", Coords)
    \/ GetOctokit("commitFileEditOnPR", "remote")
    \/ /\ fn = "commitFileEditOnPR"
       /\ pc = "remote"
       /\ \/ \E sha \in {"sha_new", "undefined"} :
                /\ log' = Append(log, RemoteEv("repos.createOrUpdateFileContents", TRUE))
                /\ local' = [newSha |-> sha]
                /\ pc' = "invalidate"
                /\ UNCHANGED result
          \/ \E e \in ErrorMessages :
                /\ log' = Append(log, RemoteEv("repos.createOrUpdateFileContents", FALSE))
                /\ Return(ErrorResult(ErrorOr(e, "Failed to commit file edit")))
                /\ UNCHANGED local
       /\ UNCHANGED <<fn, args, refs, clock, previous, auth>>
    \/ revalidateAfterPRMutation("commitFileEditOnPR", "fileCommit",
          [kind |-> "success", newSha |-> IF "newSha" \in DOMAIN local
                                           THEN local.newSha ELSE "undefined"],
          "Failed to commit file edit")

\* ------------------------------------------------ review threads (GraphQL)
\* const token = await getGitHubToken(); if (!token) return noToken
\* onThrow is what the caller gets when the await rejects: the fault itself
\* where the await stands before the try block, the catch's value inside it
GetGitHubToken(f, next, noToken, onThrow) ==
    /\ fn = f
    /\ pc = "auth"
    /\ \/ /\ auth' = "client"
          /\ pc' = next
          /\ UNCHANGED result
       \/ /\ auth' = "null"
          /\ Return(noToken)
       \/ /\ auth' = "throws"
          /\ \E v \in onThrow : Return(v)
    /\ UNCHANGED <<fn, args, local, log, refs, clock, previous>>

Faults == {Fault(e) : e \in ErrorMessages}

\* What the GraphQL endpoint answers to a mutation: the HTTP status class
\* and the body.  "data": the mutation's payload; "errors": a GraphQL
\* errors array; "message": a JSON object with neither (the shape of a 401
\* or 403); "notjson": a body response.json() cannot parse.
MutationResponses ==
    {[ok |-> TRUE, body |-> "data"], [ok |-> TRUE, body |-> "errors"],
     [ok |-> FALSE, body |-> "errors"], [ok |-> FALSE, body |-> "message"],
     [ok |-> FALSE, body |-> "notjson"]}

\* the thread was resolved/unresolved iff the request succeeded with data
ThreadMutationApplied(resp) == resp.ok /\ resp.body = "data"

\* what the function does with the parsed body: the error it returns, or
\* "" when it goes on to the cache invalidation
ThreadResponseError(resp, e, fallback) ==
    CASE resp.body = "notjson" -> ErrorOr(e, fallback)
      [] resp.body = "errors" -> "graphql error"
      [] OTHER -> ""

GraphQLMutation(f, api, fallback) ==
    /\ fn = f
    /\ pc = "remote"
    /\ \/ \E e \in ErrorMessages :
             /\ log' = Append(log, RemoteEv(api, FALSE))
             /\ Return(ErrorResult(ErrorOr(e, fallback)))
       \/ \E resp \in MutationResponses, e \in ErrorMessages :
             /\ log' = Append(log, RemoteEvWith(api, ThreadMutationApplied(resp), resp))
             /\ IF ThreadResponseError(resp, e, fallback) # ""
                   THEN Return(ErrorResult(ThreadResponseError(resp, e, fallback)))
                   ELSE pc' = "invalidate" /\ UNCHANGED result
    /\ UNCHANGED <<fn, args, local, refs, clock, previous, auth>>

ThreadAction(f, api, action, fallback) ==
    \/ Call(f, "auth", Coords)
    \/ GetGitHubToken(f, "remote", ErrorResult("Not authenticated"), Faults)
    \/ GraphQLMutation(f, api, fallback)
    \/ revalidateAfterPRMutation(f, action, Success, fallback)

resolveReviewThread ==
    ThreadAction("resolveReviewThread", "graphql.resolveReviewThread",
                 "resolveThread", "Failed to resolve thread")
unresolveReviewThread ==
    ThreadAction("unresolveReviewThread", "graphql.unresolveReviewThread",
                 "unresolveThread", "Failed to unresolve thread")

\* ------------------------------------------------------ fetchBranchNames
BranchLists == {<<>>, <<[name |-> "main"]>>, <<[name |-> "main"], [name |-> "dev"]>>}
RepoArgs == [owner : Owners, repo : Repos]

fetchBranchNames ==
    \/ Call("fetchBranchNames", "remote", RepoArgs)
    \/ /\ fn = "fetchBranchNames"
       /\ pc = "remote"
       /\ \/ \E branches \in BranchLists :
                /\ log' = Append(log, RemoteEv("getRepoBranches", TRUE))
                /\ Return([kind |-> "list",
                           names |-> [i \in 1..Len(branches) |-> branches[i].name]])
             \* branches is null or undefined: (branches || [])
          \/ /\ log' = Append(log, RemoteEv("getRepoBranches", TRUE))
             /\ Return([kind |-> "list", names |-> <<>>])
          \/ /\ log' = Append(log, RemoteEv("getRepoBranches", FALSE))
             /\ Return([kind |-> "list", names |-> <<>>])
       /\ UNCHANGED <<fn, args, local, refs, clock, previous, auth>>

\* -------------------------------------------------------- commitSuggestion
\* A string is the sequence of its characters.
NL == "\n"
Chars == {"a", "b", NL}
Texts(n) == UNION {[1..k -> Chars] : k \in 0..n}

Min(a, b) == IF a < b THEN a ELSE b
Max(a, b) == IF a > b THEN a ELSE b

\* String.prototype.split("\n")
RECURSIVE split(_)
split(s) ==
    IF \A i \in 1..Len(s) : s[i] # NL
    THEN <<s>>
    ELSE LET i == CHOOSE j \in 1..Len(s) :
                     s[j] = NL /\ \A k \in 1..(j - 1) : s[k] # NL
         IN  <<SubSeq(s, 1, i - 1)>> \o split(SubSeq(s, i + 1, Len(s)))

\* Array.prototype.join("\n")
RECURSIVE join(_)
join(lines) ==
    IF lines = <<>> THEN <<>>
    ELSE IF Len(lines) = 1 THEN lines[1]
    ELSE lines[1] \o <<NL>> \o join(Tail(lines))

\* Array.prototype.slice(begin, end): a negative index counts from the end
sliceIndex(i, len) == IF i < 0 THEN Max(len + i, 0) ELSE Min(i, len)
slice(a, begin, end) ==
    SubSeq(a, sliceIndex(begin, Len(a)) + 1, sliceIndex(end, Len(a)))

\* Buffer.from(text).toString("base64") and Buffer.from(b64, "base64").toString("utf-8")
\* on the ASCII texts of the model
ToBase64(text) == [base64 |-> text]
FromBase64(b) == b.base64

\* the replaced range taken one line too short
newContentOffByOne(content, startLine, endLine, suggestion) ==
    LET lines == split(content)
        before == slice(lines, 0, startLine - 1)
        after == slice(lines, endLine - 1, Len(lines))
    IN  join(before \o (IF Len(suggestion) > 0 THEN split(suggestion) ELSE <<>>)
                    \o after)

\* lines 284-290: the new content of the file
suggestionLines(suggestion) == IF Len(suggestion) > 0 THEN split(suggestion) ELSE <<>>
newContent(content, startLine, endLine, suggestion) ==
    LET lines == split(content)
        before == slice(lines, 0, startLine - 1)
        after == slice(lines, endLine, Len(lines))
    IN  join(before \o suggestionLines(suggestion) \o after)

\* what repos.getContent may answer with: a file, a directory listing
\* (an array), or an entry that is no file (a symlink, a submodule)
getContentStep(Files) ==
    /\ fn = "commitSuggestion"
    /\ pc = "getContent"
    /\ \/ \E content \in Files :
             /\ log' = Append(log, RemoteEvWith("repos.getContent", TRUE,
                                                ToBase64(content)))
             /\ local' = [sha |-> "sha_old",
                          content |-> FromBase64(ToBase64(content)),
                          newContent |-> newContent(FromBase64(ToBase64(content)),
                                            args.startLine, args.endLine, args.suggestion)]
             /\ pc' = "update"
             /\ UNCHANGED result
       \/ \E kind \in {"array", "dir", "symlink"} :
             /\ log' = Append(log, RemoteEvWith("repos.getContent", TRUE, kind))
             /\ Return(ErrorResult("Not a file"))
             /\ UNCHANGED local
       \/ \E e \in ErrorMessages :
             /\ log' = Append(log, RemoteEv("repos.getContent", FALSE))
             /\ Return(ErrorResult(ErrorOr(e, "Failed to commit suggestion")))
             /\ UNCHANGED local
    /\ UNCHANGED <<fn, args, refs, clock, previous, auth>>

updateFileStep ==
    /\ fn = "commitSuggestion"
    /\ pc = "update"
    /\ \/ /\ log' = Append(log, RemoteEvWith("repos.createOrUpdateFileContents", TRUE,
                                 [content |-> ToBase64(local.newContent),
                                  sha |-> local.sha]))
          /\ pc' = "invalidate"
          /\ UNCHANGED result
       \/ \E e \in ErrorMessages :
             /\ log' = Append(log, RemoteEv("repos.createOrUpdateFileContents", FALSE))
             /\ Return(ErrorResult(ErrorOr(e, "Failed to commit suggestion")))
    /\ UNCHANGED <<fn, args, local, refs, clock, previous, auth>>

commitSuggestionOn(Args, Files) ==
    \/ Call("commitSuggestion", "auth", Args)
    \/ GetOctokit("commitSuggestion", "getContent")
    \/ getContentStep(Files)
    \/ updateFileStep
    \/ revalidateAfterPRMutation("commitSuggestion", "suggestion", Success,
                                 "Failed to commit suggestion")

SuggestionArgs(Cs, Lines, Suggestions) ==
    {[owner |-> c.owner, repo |-> c.repo, pullNumber |-> c.pullNumber,
      startLine |-> s, endLine |-> e, suggestion |-> t] :
        c \in Cs, s \in Lines, e \in Lines, t \in Suggestions}

\* the files and suggestions of the specification of all the actions
FewFiles == {<<"a", NL, "b", "a">>}
FewSuggestions == {<<>>, <<"a">>}

commitSuggestion ==
    commitSuggestionOn(SuggestionArgs(Coords, 1..2, FewSuggestions), FewFiles)

\* ------------------------------------------ commitMergeConflictResolution
\* Git objects are named by what they are made of.
TreeShaOf(commitSha) == <<"tree">> \o commitSha
BlobSha(content) == <<"blob", content>>
NewTreeSha == <<"tree", "new">>
\* the sha of a merge commit made on top of headSha
MergeCommitSha(headSha) == <<"merge">> \o headSha

AllFiles == [i \in 1..MaxFiles |-> [path |-> ToString(i), content |-> ToString(i)]]
ConflictArgs ==
    {[owner |-> c.owner, repo |-> c.repo, pullNumber |-> c.pullNumber,
      headBranch |-> "feature", baseBranch |-> "main",
      resolvedFiles |-> SubSeq(AllFiles, 1, n)] : c \in Coords, n \in 0..MaxFiles}

CRFallback == "Failed to commit merge resolution"
CRFail(api, e) ==
    /\ log' = Append(log, RemoteEv(api, FALSE))
    /\ Return(ErrorResult(ErrorOr(e, CRFallback)))
    /\ UNCHANGED <<local, refs>>
CRStep(at) ==
    /\ fn = "commitMergeConflictResolution"
    /\ pc = at
    /\ UNCHANGED <<fn, args, clock, previous, auth>>

\* 1. Promise.all of the two getRef calls
getRefsStep ==
    /\ CRStep("getRefs")
    /\ \/ /\ log' = log \o <<RemoteEvWith("git.getRef", TRUE, args.headBranch),
                             RemoteEvWith("git.getRef", TRUE, args.baseBranch)>>
          /\ local' = [headSha |-> refs[args.headBranch],
                       baseSha |-> refs[args.baseBranch]]
          /\ pc' = "getCommit"
          /\ UNCHANGED <<result, refs>>
       \/ \E e \in ErrorMessages : CRFail("git.getRef", e)

\* 2. the head commit, for its tree
getCommitStep ==
    /\ CRStep("getCommit")
    /\ \/ /\ log' = Append(log, RemoteEvWith("git.getCommit", TRUE, local.headSha))
          /\ local' = local @@ [headTree |-> TreeShaOf(local.headSha)]
          /\ pc' = "createBlobs"
          /\ UNCHANGED <<result, refs>>
       \/ \E e \in ErrorMessages : CRFail("git.getCommit", e)

\* 3. Promise.all of one createBlob per resolved file: all the requests are
\* sent, each succeeds or not, and the step throws unless all succeeded
treeEntries(files) ==
    [i \in 1..Len(files) |->
        [path |-> files[i].path, mode |-> "100644", type |-> "blob",
         sha |-> BlobSha(files[i].content)]]
createBlobsStep ==
    /\ CRStep("createBlobs")
    /\ \E oks \in [1..Len(args.resolvedFiles) -> BOOLEAN], e \in ErrorMessages :
          /\ log' = log \o [i \in 1..Len(args.resolvedFiles) |->
                               RemoteEvWith("git.createBlob", oks[i],
                                            args.resolvedFiles[i].path)]
          /\ IF \A i \in 1..Len(args.resolvedFiles) : oks[i]
                THEN /\ local' = local @@
                            [treeEntries |-> treeEntries(args.resolvedFiles)]
                     /\ pc' = "createTree"
                     /\ UNCHANGED result
                ELSE /\ Return(ErrorResult(ErrorOr(e, CRFallback)))
                     /\ UNCHANGED local
    /\ UNCHANGED refs

\* 4. the new tree, on top of the head commit's tree
createTreeParams == [base_tree |-> local.headTree, tree |-> local.treeEntries]
createTreeStep ==
    /\ CRStep("createTree")
    /\ \/ /\ log' = Append(log, RemoteEvWith("git.createTree", TRUE, createTreeParams))
          /\ local' = local @@ [newTree |-> NewTreeSha]
          /\ pc' = "getUser"
          /\ UNCHANGED <<result, refs>>
       \/ \E e \in ErrorMessages : CRFail("git.createTree", e)

\* 5. const user = await getAuthenticatedUser(): a user, null, or a throw
getUserStep ==
    /\ CRStep("getUser")
    /\ \/ \E user \in {"user", "null"} :
             /\ local' = local @@ [user |-> user]
             /\ pc' = "createCommit"
             /\ UNCHANGED <<log, result, refs>>
       \/ \E e \in ErrorMessages :
             /\ Return(ErrorResult(ErrorOr(e, CRFallback)))
             /\ UNCHANGED <<log, local, refs>>

\* the two parents in the other order
createCommitParentsSwapped == <<local.baseSha, local.headSha>>

\* the merge commit with two parents: [headSha, baseSha]
createCommitParents == <<local.headSha, local.baseSha>>
createCommitParams ==
    [tree |-> local.newTree, parents |-> createCommitParents,
     author |-> IF local.user = "null" THEN "default" ELSE local.user]
createCommitStep ==
    /\ CRStep("createCommit")
    /\ \/ /\ log' = Append(log, RemoteEvWith("git.createCommit", TRUE, createCommitParams))
          /\ local' = local @@ [mergeCommit |-> MergeCommitSha(local.headSha)]
          /\ pc' = "updateRef"
          /\ UNCHANGED <<result, refs>>
       \/ \E e \in ErrorMessages : CRFail("git.createCommit", e)

\* 6. the head branch now points to the merge commit
updateRefStep ==
    /\ CRStep("updateRef")
    /\ \/ /\ log' = Append(log, RemoteEvWith("git.updateRef", TRUE,
                        [ref |-> args.headBranch, sha |-> local.mergeCommit]))
          /\ refs' = [refs EXCEPT ![args.headBranch] = local.mergeCommit]
          /\ pc' = "invalidate"
          /\ UNCHANGED <<local, result>>
       \/ \E e \in ErrorMessages : CRFail("git.updateRef", e)

commitMergeConflictResolution ==
    \/ /\ Len(refs.feature) < Len(TipSha("feature")) + MaxMerges
       /\ Call("commitMergeConflictResolution", "auth", ConflictArgs)
    \/ GetOctokit("commitMergeConflictResolution", "getRefs")
    \/ getRefsStep
    \/ getCommitStep
    \/ createBlobsStep
    \/ createTreeStep
    \/ getUserStep
    \/ createCommitStep
    \/ updateRefStep
    \/ revalidateAfterPRMutation("commitMergeConflictResolution", "conflictResolution",
          [kind |-> "success",
           mergeCommitSha |-> IF "mergeCommit" \in DOMAIN local
                                 THEN local.mergeCommit ELSE <<>>],
          CRFallback)

\* ------------------------------------------------------ fetchAuthorDossier
\* an optional JSON value: <<>> when absent or null, <<v>> when present
None == <<>>
Some(v) == <<v>>
\* x ?? d
coalesce(x, d) == IF x = None THEN d ELSE x[1]

\* String.prototype.toLowerCase on the logins of the model
toLowerCase(s) ==
    CASE s = "Acme" -> "acme"
      [] s = "ACME" -> "acme"
      [] s = "Bob" -> "bob"
      [] OTHER -> s

\* organizations(first: 10) and topRepositories(first: 6) of the query
OrgsFirst == 10
TopReposFirst == 6
first(seq, n) == SubSeq(seq, 1, Min(n, Len(seq)))

\* What the endpoint answers to the query of lines 522-551 for an account:
\* the connections are cut to their first: n nodes by the server
QueryResponse(account) ==
    [account EXCEPT !.orgs = first(account.orgs, OrgsFirst),
                    !.stars = first(account.stars, TopReposFirst)]

\* lines 579-581
isOrgMember(orgs, owner) ==
    \E i \in 1..Len(orgs) : toLowerCase(orgs[i]) = toLowerCase(owner)
\* the reviews left out of the count
contributionCountMergedOnly(mergedPrs, reviewCount) == mergedPrs
\* line 596
contributionCount(mergedPrs, reviewCount) == mergedPrs + reviewCount
\* line 597
isContributor(count) == count > 0
\* lines 590-594
prsInRepo(mergedPrs, closedPrs, openPrs) ==
    [i \in 1..mergedPrs |-> "merged"] \o [i \in 1..closedPrs |-> "closed"]
        \o [i \in 1..openPrs |-> "open"]

\* the object handed to computeContributorScore, lines 599-611
ContributorSnapshot(json, owner, authorLogin) ==
    LET mergedPrs == coalesce(json.mergedPrs, 0)
        reviewCount == coalesce(json.reviews, 0)
        count == contributionCount(mergedPrs, reviewCount)
    IN  [followers |-> coalesce(json.followers, 0),
         publicRepos |-> coalesce(json.repositories, 0),
         accountCreated |-> json.createdAt,
         commitsInRepo |-> mergedPrs,
         prsInRepo |-> prsInRepo(mergedPrs, coalesce(json.closedPrs, 0),
                                 coalesce(json.openPrs, 0)),
         reviewsInRepo |-> reviewCount,
         isContributor |-> isContributor(count),
         contributionCount |-> count,
         isOrgMember |-> isOrgMember(json.orgs, owner),
         isOwner |-> toLowerCase(authorLogin) = toLowerCase(owner),
         topRepoStars |-> json.stars]

\* The contributor score of lib/contributor-score: capped sub-signals and
\* flat bonuses, clamped to 0..MaxScore.  The account's age is the time
\* from accountCreated to `now`; an absent accountCreated is age 0.
MaxScore == 100
RECURSIVE maxOf(_)
maxOf(seq) == IF seq = <<>> THEN 0 ELSE Max(Head(seq), maxOf(Tail(seq)))
computeContributorScore(snapshot, now) ==
    LET age == IF snapshot.accountCreated = None THEN 0
               ELSE Max(now - snapshot.accountCreated[1], 0)
        merged == Cardinality({i \in 1..Len(snapshot.prsInRepo) :
                                  snapshot.prsInRepo[i] = "merged"})
        raw == Min(snapshot.followers, 10) + Min(snapshot.publicRepos, 10)
               + 5 * Min(age, 4) + 2 * Min(snapshot.commitsInRepo, 10)
               + Min(merged, 10) + Min(snapshot.reviewsInRepo, 10)
               + Min(maxOf(snapshot.topRepoStars), 10)
               + (IF snapshot.isContributor THEN 10 ELSE 0)
               + (IF snapshot.isOrgMember THEN 10 ELSE 0)
               + (IF snapshot.isOwner THEN 10 ELSE 0)
    IN  Min(Max(raw, 0), MaxScore)

\* The call of line 599 passes the snapshot alone: the instant the score
\* measures the account's age against is the process-wide clock at the call.
scoreOf(snapshot) == computeContributorScore(snapshot, clock)

\* the dossier fetchAuthorDossierGraphQL returns, lines 613-640
Dossier(json, owner, authorLogin) ==
    LET snapshot == ContributorSnapshot(json, owner, authorLogin)
        openPrs == coalesce(json.openPrs, 0)
        closedPrs == coalesce(json.closedPrs, 0)
    IN  [kind |-> "dossier",
         login |-> json.login,
         orgs |-> json.orgs,
         topRepos |-> first(json.stars, 3),
         isOrgMember |-> snapshot.isOrgMember,
         score |-> scoreOf(snapshot),
         contributionCount |-> snapshot.contributionCount,
         repoActivity |-> [commits |-> snapshot.commitsInRepo,
                           prs |-> openPrs + snapshot.commitsInRepo + closedPrs,
                           reviews |-> snapshot.reviewsInRepo,
                           issues |-> coalesce(json.issues, 0)]]

NullResult == [kind |-> "null"]

\* fetchAuthorDossierGraphQL(token, owner, repo, authorLogin), awaited inside
\* the try block of fetchAuthorDossier: whatever it throws becomes null
graphqlStep(Accounts) ==
    /\ fn = "fetchAuthorDossier"
    /\ pc = "graphql"
    /\ \/ \E account \in Accounts :
             /\ log' = Append(log, RemoteEv("graphql.query", TRUE))
             /\ local' = [account |-> account,
                          json |-> QueryResponse(account),
                          snapshot |-> ContributorSnapshot(QueryResponse(account),
                                           args.owner, args.authorLogin)]
             /\ Return(Dossier(QueryResponse(account), args.owner, args.authorLogin))
          \* fetch rejects or times out, !response.ok, response.json()
          \* rejects, or the answer holds no user
       \/ \E why \in {"fetch throws", "not ok", "json throws", "no user"} :
             /\ log' = Append(log, RemoteEvWith("graphql.query", FALSE, why))
             /\ Return(NullResult)
             /\ UNCHANGED local
    /\ UNCHANGED <<fn, args, refs, clock, previous, auth>>

fetchAuthorDossierOn(Args, Accounts) ==
    \/ Call("fetchAuthorDossier", "auth", Args)
    \/ GetGitHubToken("fetchAuthorDossier", "graphql", NullResult, {NullResult})
    \/ graphqlStep(Accounts)

\* the accounts of the model: the author is in n organizations, the p-th of
\* which (if any) is the repository owner's, spelled v
OrgList(n, p, v) == [i \in 1..n |-> IF i = p THEN v ELSE "other"]
OrgLists(maxOrgs) ==
    {OrgList(n, p, v) : n \in 0..maxOrgs, p \in 0..maxOrgs, v \in {"ACME", "acme"}}
OptCounts(max) == {None} \cup {Some(k) : k \in 0..max}
AccountsOf(Merged, Others, Orgs, Created) ==
    {[login |-> "bob", orgs |-> o, stars |-> <<5, 1>>,
      followers |-> Some(3), repositories |-> None, createdAt |-> t,
      mergedPrs |-> m, reviews |-> r, closedPrs |-> c, openPrs |-> op,
      issues |-> None] :
        o \in Orgs, t \in Created, m \in Merged, r \in Merged,
        c \in Others, op \in Others}
DossierArgs ==
    {[owner |-> o, repo |-> "hub", authorLogin |-> a] :
        o \in Owners, a \in {"bob", "ACME"}}

FewAccounts == AccountsOf({None, Some(1)}, {Some(0)}, OrgLists(1), {None, Some(0)})

fetchAuthorDossier == fetchAuthorDossierOn(DossierArgs, FewAccounts)

\* the caller fetches the same author's dossier once more
Refetch ==
    /\ pc = "done"
    /\ fn = "fetchAuthorDossier"
    /\ result.kind = "dossier"
    /\ previous = NoPrevious
    /\ previous' = [kind |-> "fetch", json |-> local.json, result |-> result]
    /\ pc' = "auth"
    /\ local' = NoLocal
    /\ log' = <<>>
    /\ result' = NoResult
    /\ auth' = "unknown"
    /\ UNCHANGED <<fn, args, refs, clock>>

\* time passes
Tick ==
    /\ clock < MaxClock
    /\ clock' = clock + 1
    /\ UNCHANGED <<fn, pc, args, local, log, result, refs, previous, auth>>

Next ==
    \/ updatePRBaseBranch
    \/ renamePullRequest
    \/ mergePullRequest
    \/ closePullRequest
    \/ reopenPullRequest
    \/ submitPRReview
    \/ addPRComment
    \/ addPRReviewComment
    \/ commitSuggestion
    \/ commitFileEditOnPR
    \/ commitMergeConflictResolution
    \/ resolveReviewThread
    \/ unresolveReviewThread
    \/ fetchBranchNames
    \/ fetchAuthorDossier
    \/ Refetch
    \/ Tick
    \/ Finish

Spec == Init /\ [][Next]_vars

\* ---------------------------------- commitSuggestion on many files
MaxLen == 4
MaxSuggestion == 1
OneCoord == {[owner |-> "acme", repo |-> "hub", pullNumber |-> 1]}

NextSuggestion ==
    \/ commitSuggestionOn(SuggestionArgs(OneCoord, 0..(MaxLen + 1), Texts(MaxSuggestion)),
                          Texts(MaxLen))
    \/ Finish

SpecSuggestion == Init /\ [][NextSuggestion]_vars

\* ---------------------------------- fetchAuthorDossier on many accounts
ManyAccounts ==
    AccountsOf(OptCounts(MaxCount), OptCounts(MaxCount), OrgLists(MaxOrgs),
               {None, Some(0)})

NextDossier ==
    \/ fetchAuthorDossierOn(DossierArgs, ManyAccounts)
    \/ Finish

SpecDossier == Init /\ [][NextDossier]_vars

\* ======================================================= the claims
MutationFns ==
    {"updatePRBaseBranch", "renamePullRequest", "mergePullRequest",
     "closePullRequest", "reopenPullRequest", "submitPRReview", "addPRComment",
     "addPRReviewComment", "commitSuggestion", "commitFileEditOnPR",
     "resolveReviewThread", "unresolveReviewThread",
     "commitMergeConflictResolution"}
RemoteIdx == {i \in 1..Len(log) : log[i].ev = "remote"}
CacheIdx == {i \in 1..Len(log) : log[i].ev \in {"invalidate", "revalidate"}}
CallsOf(name) == {i \in RemoteIdx : log[i].name = name}

\* C1: every exported server action completes with a result value
\* ({success}, {error}, null or a list) and never propagates a fault to its
\* caller, whichever external call fails, the obtaining of the client or
\* token included.
EveryActionReturnsAResult ==
    pc = "done" =>
        result.kind \in {"success", "error", "null", "list", "dossier"}

\* C2: a remote call of a mutation action that failed (a throw, a GraphQL
\* errors array, a non-success HTTP response) ends the action with {error}
\* and without any cache invalidation; success is returned only if the
\* forwarded mutation was applied.
FailedCallIsReportedAsError ==
    (fn \in MutationFns /\ pc = "done" /\ \E i \in RemoteIdx : ~log[i].applied) =>
        /\ result.kind = "error"
        /\ CacheIdx = {}

\* C3: in every execution of a PR action, the remote calls all complete
\* successfully before the cache invalidation, invalidatePullRequestCache
\* goes before the revalidatePath calls, no invalidation happens when a
\* remote call of the action failed, and {success: true} is returned only
\* after the invalidation has completed.
InvalidationFollowsSuccessfulMutation ==
    fn \in MutationFns =>
        /\ \A i \in CacheIdx :
              /\ \E j \in RemoteIdx : j < i
              /\ \A j \in RemoteIdx : j < i /\ log[j].applied
        /\ \A i \in 1..Len(log) :
              log[i].ev = "revalidate" =>
                  \E j \in 1..(i - 1) : log[j].ev = "invalidate"
        /\ result.kind = "success" =>
              /\ \E i \in 1..Len(log) : log[i].ev = "invalidate"
              /\ log[Len(log)].ev = "revalidate"

\* the functions whose scope holds the pulls list, and the repository layout
ListFns ==
    {"mergePullRequest", "closePullRequest", "reopenPullRequest",
     "renamePullRequest", "updatePRBaseBranch", "commitMergeConflictResolution"}
LayoutFns == {"mergePullRequest", "closePullRequest", "reopenPullRequest"}
\* C4: after any successful PR action invalidatePullRequestCache(owner,
\* repo, pullNumber) has been called exactly once, the PR detail path is
\* revalidated, the pulls list path exactly for merge, close, reopen,
\* rename, updateBase and conflictResolution, the repository layout exactly
\* for merge, close and reopen, each at most once and nothing else.
InvalidationIsFixedPerAction ==
    (fn \in MutationFns /\ result.kind = "success") =>
        LET inv == {i \in 1..Len(log) : log[i].ev = "invalidate"}
            rev == {i \in 1..Len(log) : log[i].ev = "revalidate"}
            paths == {log[i].path : i \in rev}
            detail == [path |-> <<"repos", args.owner, args.repo, "pulls",
                                  ToString(args.pullNumber)>>, type |-> "page"]
            list == [path |-> <<"repos", args.owner, args.repo, "pulls">>,
                     type |-> "page"]
            layout == [path |-> <<"repos", args.owner, args.repo>>,
                       type |-> "layout"]
        IN  /\ Cardinality(inv) = 1
            /\ \A i \in inv :
                  /\ log[i].owner = args.owner
                  /\ log[i].repo = args.repo
                  /\ log[i].pullNumber = args.pullNumber
            /\ Cardinality(rev) = Cardinality(paths)
            /\ paths = {detail} \cup (IF fn \in ListFns THEN {list} ELSE {})
                                \cup (IF fn \in LayoutFns THEN {layout} ELSE {})
MergeSucceeded ==
    /\ fn = "mergePullRequest"
    /\ pc = "done"
    /\ result.kind = "success"
    /\ Len(log) = 5

\* a count of the remote answer, 0 when it is missing
CountOrZero(x) == IF x = <<>> THEN 0 ELSE x[1]
\* C5: in every dossier, contributionCount (of the snapshot handed to the
\* score and of the dossier) is the merged-PR count plus the review count
\* of the remote answer, a missing count being 0, and isContributor is true
\* exactly when one of the two counts is at least 1.
ContributionCountIsMergedPlusReviews ==
    (fn = "fetchAuthorDossier" /\ result.kind = "dossier") =>
        LET merged == CountOrZero(local.account.mergedPrs)
            reviews == CountOrZero(local.account.reviews)
        IN  /\ local.snapshot.contributionCount = merged + reviews
            /\ result.contributionCount = merged + reviews
            /\ local.snapshot.isContributor = (merged >= 1 \/ reviews >= 1)
            /\ local.snapshot.isContributor
                  = (local.snapshot.contributionCount >= 1)
DossierOfReviewerWithMissingMergedCount ==
    /\ fn = "fetchAuthorDossier"
    /\ result.kind = "dossier"
    /\ local.account.mergedPrs = <<>>
    /\ local.account.reviews = <<1>>
    /\ local.snapshot.isContributor

\* the author is a member of the organization that owns the repository
AuthorBelongsToOwner ==
    \E i \in 1..Len(local.account.orgs) :
        toLowerCase(local.account.orgs[i]) = toLowerCase(args.owner)
\* C6: isOrgMember of the dossier and of the snapshot is true exactly when
\* the author belongs to the organization that owns the repository, the
\* logins compared case-insensitively, however many organizations the
\* author is a member of.
OrgMemberIffBelongsToOwner ==
    (fn = "fetchAuthorDossier" /\ result.kind = "dossier") =>
        /\ result.isOrgMember = AuthorBelongsToOwner
        /\ local.snapshot.isOrgMember = AuthorBelongsToOwner

\* C7: two dossier fetches that receive identical remote responses yield
\* identical scores, whenever they run.
ScoreIndependentOfTime ==
    (/\ fn = "fetchAuthorDossier"
     /\ result.kind = "dossier"
     /\ previous.kind = "fetch"
     /\ previous.json = local.json) =>
        result.score = previous.result.score

\* what the log holds when its i-th call, git.updateRef, has moved the ref
RefMoveIsPrepared(i) ==
    LET files == args.resolvedFiles
        blobs == CallsOf("git.createBlob")
        trees == CallsOf("git.createTree")
        commits == CallsOf("git.createCommit")
    IN  /\ \A j \in RemoteIdx : j <= i /\ (j < i => log[j].applied)
        /\ Cardinality(CallsOf("git.getRef")) = 2
        /\ Cardinality(CallsOf("git.getCommit")) = 1
        /\ Cardinality(blobs) = Len(files)
        /\ \A k \in 1..Len(files) : \E j \in blobs : log[j].payload = files[k].path
        /\ Cardinality(trees) = 1
        /\ Cardinality(commits) = 1
        /\ \A t \in trees, c \in commits :
              /\ \A j \in blobs : j < t
              /\ t < c
              /\ c < i
              /\ Len(log[t].payload.tree) = Len(files)
              /\ \A k \in 1..Len(files) :
                    /\ log[t].payload.tree[k].path = files[k].path
                    /\ log[t].payload.tree[k].sha = <<"blob", files[k].content>>
              /\ Len(log[c].payload.parents) = 2
              /\ log[c].payload.parents[2] = refs[args.baseBranch]
              /\ log[t].payload.base_tree = <<"tree">> \o log[c].payload.parents[1]
              /\ log[i].payload.ref = args.headBranch
              /\ log[i].payload.sha = <<"merge">> \o log[c].payload.parents[1]
              /\ refs[args.headBranch] = log[i].payload.sha
ConflictResolutionInv ==
    fn = "commitMergeConflictResolution" =>
        /\ \A i \in CallsOf("git.updateRef") : log[i].applied => RefMoveIsPrepared(i)
        /\ \A c \in CallsOf("git.createCommit") :
              (log[c].applied /\ \A i \in CallsOf("git.updateRef") : ~log[i].applied)
                  => log[c].payload.parents
                        = <<refs[args.headBranch], refs[args.baseBranch]>>
        /\ (pc = "done" /\ auth = "client"
                /\ \A i \in CallsOf("git.updateRef") : ~log[i].applied)
              => (result.kind = "error" /\ CacheIdx = {})
RefMovesOnlyByUpdateRef ==
    refs' # refs =>
        /\ fn = "commitMergeConflictResolution"
        /\ pc = "updateRef"
        /\ Len(log') = Len(log) + 1
        /\ log'[Len(log')].name = "git.updateRef"
        /\ log'[Len(log')].applied
        /\ refs' = [refs EXCEPT ![args.headBranch] = log'[Len(log')].payload.sha]
\* C8: commitMergeConflictResolution moves the head branch ref only as its
\* last remote step, after the two tips were read, the head commit fetched,
\* one blob per resolved file, the tree on top of the head commit's tree and
\* the merge commit were created; that commit's parents are the head tip and
\* the base tip read in step 1, in that order; if an earlier step fails the
\* ref stays where it was, nothing is invalidated and {error} is returned.
ConflictResolutionMovesRefLast ==
    [](ConflictResolutionInv) /\ [][RefMovesOnlyByUpdateRef]_vars
ConflictOfTwoFilesResolved ==
    /\ fn = "commitMergeConflictResolution"
    /\ pc = "done"
    /\ result.kind = "success"
    /\ Len(args.resolvedFiles) = 2
    /\ refs[args.headBranch] = <<"merge", "commit", "feature">>

\* C9: for the file's content split on "\n" into lines L and
\* 1 <= startLine <= endLine <= |L|, the content commitSuggestion commits is
\* L[1..startLine-1] ++ S ++ L[endLine+1..|L|] joined by "\n", S being the
\* suggestion split on "\n", or nothing when the suggestion is empty; the
\* lines outside the range are kept unchanged and in their order.
SuggestionReplacesExactlyTheRange ==
    fn = "commitSuggestion" =>
        \A g \in CallsOf("repos.getContent"),
           u \in CallsOf("repos.createOrUpdateFileContents") :
            (log[g].applied /\ log[u].applied) =>
                LET L == split(log[g].payload.base64)
                    s == args.startLine
                    e == args.endLine
                    S == IF args.suggestion = <<>> THEN <<>>
                         ELSE split(args.suggestion)
                    committed == log[u].payload.content.base64
                    N == split(committed)
                IN  (1 <= s /\ s <= e /\ e <= Len(L)) =>
                        /\ committed = join(SubSeq(L, 1, s - 1) \o S
                                               \o SubSeq(L, e + 1, Len(L)))
                        /\ \A k \in 1..(s - 1) : N[k] = L[k]
                        /\ \A k \in (e + 1)..Len(L) :
                              N[Len(N) - (Len(L) - k)] = L[k]
MiddleLinesReplacedByTwo ==
    /\ fn = "commitSuggestion"
    /\ pc = "done"
    /\ result.kind = "success"
    /\ args.startLine = 2
    /\ args.endLine = 2
    /\ args.suggestion = <<NL>>
    /\ local.content = <<"a", NL, "b", NL>>

\* the state, and the step, of a call that got no client or token
UnauthenticatedInv ==
    auth = "null" =>
        /\ pc = "done"
        /\ log = <<>>
        /\ IF fn = "fetchAuthorDossier"
              THEN result = [kind |-> "null"]
              ELSE result = [kind |-> "error", error |-> "Not authenticated"]
UnauthenticatedStep ==
    auth' = "null" => (refs' = refs /\ log' = <<>>)
\* C10: when getOctokit or getGitHubToken answers null, the action makes no
\* remote call, invalidates and revalidates nothing, and returns
\* {error: "Not authenticated"}, fetchAuthorDossier null; the remote state
\* stays as it was.
UnauthenticatedDoesNothing ==
    [](UnauthenticatedInv) /\ [][UnauthenticatedStep]_vars
UnauthenticatedMerge ==
    /\ fn = "mergePullRequest"
    /\ auth = "null"
    /\ pc = "done"
=============================================================================
